---- MODULE Spec2Model ----
(***************************************************************************)
(* Model of the two Flask variants of the Spotify downloader API:          *)
(*   src/app.py  - EnhancedDownloader, stream_track, download_zip          *)
(*                 (sequential batch, in-memory archive)                   *)
(*   src/main.py - SpotifyDownloader, stream_file, download_zip            *)
(*                 (batch over a pool of 2 workers, archive of the         *)
(*                 workspace directory)                                    *)
(* One behaviour is one HTTP request handled by one of the four handlers.  *)
(***************************************************************************)
EXTENDS Integers, Sequences, FiniteSets, TLC

\* ---------------------------------------------------------------- bounds
\* longest collection the catalog returns in the model
MaxTracks == 3

\* longest artist and longest title, in characters, of the query generation
MaxNameLen == 2

\* attempts each thread of the lock specification makes
MaxRounds == 2

\* longest collection of the batch that is aborted by an exception
MaxAbortTracks == 2

\* most entries a search returns in the best-match specification
MaxCandidates == 4

\* how many bytes over the ceiling the largest cover image is
MaxCoverOver == 1

\* attempts each thread of the options specification makes
MaxOptRounds == 2

\* ------------------------------------------------------ program constants
NumQueries == 8
NumSources == 5
AppCap == 8
MainCap == 10
MaxRetries == 2
\* variant of MaxWorkers with one pool thread per track of the batch
MaxWorkersPerTrack == MaxTracks
MaxWorkers == 2

\* sanitized "artist - title" names of tracks; two tracks may share one
Names == {"a", "b"}
NoFile == "none"

Variants == {"stream_track", "app_zip", "stream_file", "main_zip"}
Workers == 1..MaxWorkers

VARIABLES
    variant,            \* the handler that serves this request
    pc,                 \* position of the request thread in the handler
    collection,         \* track list the catalog holds for the requested id
    temp_dir,           \* the handler's temp_dir / zip_temp_dir variable is set
    dirExists,          \* the temp directory is on disk
    deletions,          \* number of times the temp directory was removed
    cleanupRegistered,  \* an after_this_request cleanup is registered
    response,           \* response returned to the caller
    files,              \* .mp3 files in the workspace: name -> position of the writer (0: absent)
    junk,               \* leftover intermediate files in the workspace
    newest,             \* name of the most recently created .mp3 of the workspace
    archive,            \* entries of the archive, in archive order
    successful_downloads,
    i,                  \* loop index of app.py download_zip (0-based)
    attempt,            \* query index of the app.py engine (1-based)
    source_idx,         \* source index of the app.py engine (1-based)
    attempts,           \* attempts made by the app.py engine for the current track
    tried,              \* (query, source) pairs the engine attempted for the current track, in order
    had_error,          \* an attempt of the engine on the current track raised
    slept,              \* seconds the app.py engine slept after its last attempt
    order,              \* positions whose acquisition was started, in start order
    downloaded_file,    \* value returned by download_track
    tagged,             \* result of the tagging step of the last acquisition
    last_outcome,       \* how the last attempt of the app.py engine ended
    track_result,       \* per position: how the processing of the track ended
    wpc,                \* per worker: position in search_and_download_youtube
    wtask,              \* per worker: position of the track it works on
    wattempt,           \* per worker: attempt of the retry loop (0-based)
    wsleep,             \* per worker: seconds of the time.sleep in progress (0: not sleeping)
    wpath,              \* per worker: expected_file / returned path
    wtag,               \* per worker: result of add_metadata_to_file
    lock,               \* holder of downloader.lock (0: free)
    submitted,          \* number of tracks taken from the pool's queue
    results,            \* results of main.py download_zip, listed by position
    zip_path,           \* main.py: zip_path variable is set
    zipExists,          \* main.py: the archive file is on disk
    zipDeletions,       \* main.py: number of times the archive file was removed
    rpc,                \* concurrent main.py download_zip: per request, position in the handler
    rname,              \* per request: item_info['name'] of the requested collection
    rdir,               \* per request: zip_temp_dir (0: None)
    rsent,              \* per request: whose archive send_file opened (0: none)
    tmpdirs,            \* directories under tempfile.gettempdir()
    artist,             \* query generation: metadata['artist'], a string of characters
    title,              \* query generation: metadata['title']
    search_queries,     \* query generation: the list built from them
    builds,             \* query generation: number of times the list was built
    tpc,                \* threads sharing the downloader: position around "with self.lock"
    tround,             \* threads sharing the downloader: attempts finished
    entries,            \* best-match selection: info['entries'], by what each title holds
    best_entry,         \* best-match selection: index of the entry selected (0: not yet)
    cover_size,         \* tagger: len(metadata['cover_image_data']) (0: None or empty)
    meta_fields,        \* tagger: frames whose metadata field is present
    tags,               \* tagger: frames of the saved file
    tag_result,         \* tagger: "none" before the call, then "true" or "false"
    dicts,              \* options: the dict objects ("base", "meta", one per thread), key -> value
    oref,               \* options: per thread, the dict object its name ydl_opts refers to
    opc,                \* options: per thread, position in the building of the options
    oround,             \* options: per thread, attempts finished
    tmpzips             \* archive files under tempfile.gettempdir(): path -> request that wrote it (0: absent)

vars == <<variant, pc, collection, temp_dir, dirExists, deletions,
          cleanupRegistered, response, files, junk, newest, archive,
          successful_downloads, i, attempt, source_idx, attempts,
          downloaded_file, tagged, last_outcome, track_result, wpc, wtask, wattempt, wpath,
          wtag, lock, submitted, results, zip_path, zipExists, zipDeletions,
          tried, had_error, order, rpc, rname, rdir, rsent, tmpdirs, tmpzips,
          slept, wsleep, artist, title, search_queries, builds, tpc, tround,
          entries, best_entry, cover_size, meta_fields, tags, tag_result,
          dicts, oref, opc, oround>>

handlerVars == <<temp_dir, dirExists, deletions, cleanupRegistered, response>>
appVars == <<i, attempt, source_idx, attempts, tried, had_error, slept,
             downloaded_file,
             successful_downloads, track_result>>
workerVars == <<wpc, wtask, wattempt, wsleep, wpath, wtag, lock, submitted,
               results>>
zipFileVars == <<zip_path, zipExists, zipDeletions>>
reqVars == <<rpc, rname, rdir, rsent, tmpdirs, tmpzips>>
\* inputs and results of the functions that are checked on their own
matchVars == <<entries, best_entry>>
tagVars == <<cover_size, meta_fields, tags, tag_result>>
optVars == <<dicts, oref, opc, oround>>
pureVars == <<matchVars, tagVars, optVars>>
sideVars == <<artist, title, search_queries, builds, tpc, tround, pureVars>>

\* ---------------------------------------------------------------- helpers
Min(a, b) == IF a < b THEN a ELSE b

SeqsUpTo(S, n) == UNION {[1..k -> S] : k \in 0..n}

\* all orderings of a finite set
Perms(S) == {s \in [1..Cardinality(S) -> S] :
                \A x, y \in 1..Cardinality(S) : x # y => s[x] # s[y]}

\* f"{n:02d}": decimal digits of n, zero-padded to at least two digits
Digits(n) == IF n < 10 THEN <<n>>
             ELSE IF n < 100 THEN <<n \div 10, n % 10>>
             ELSE <<n \div 100, (n \div 10) % 10, n % 10>>

Pad2(n) == IF n < 10 THEN <<0, n>> ELSE Digits(n)

\* the cap of the batch: item_info['tracks'][:total_tracks] / [:10]
Cap == IF variant = "app_zip" THEN AppCap ELSE MainCap

\* variant of tracks without the slice
tracksUncapped == collection

\* the tracks the handler processes
tracks == SubSeq(collection, 1, Min(Len(collection), Cap))

total_tracks == Min(Len(collection), AppCap)

NoFiles == [n \in Names |-> 0]

Exists(path) == path \in Names /\ files[path] # 0


\* ------------------------------------------------------------------- Init
\* the two requests of the concurrent specification
Requests == {1, 2}

\* safe_zip_base of the requested collections: the sanitized, truncated
\* BRANDING_PREFIX + item_info['name']; two collections may share one
AlbumNames == {"x", "y"}

\* names tempfile.mkdtemp can give to a new directory
DirIds == {1, 2}

\* threads of the lock specification
Threads == {1, 2, 3}

\* no function is being checked on its own
InitNoMatch ==
    /\ entries = <<>>
    /\ best_entry = 0

InitNoTag ==
    /\ cover_size = 0
    /\ meta_fields = {}
    /\ tags = {}
    /\ tag_result = "none"

InitNoOpts ==
    /\ dicts = <<>>
    /\ oref = <<>>
    /\ opc = <<>>
    /\ oround = <<>>

InitNoPure ==
    /\ InitNoMatch
    /\ InitNoTag
    /\ InitNoOpts

\* no query list is being built and no thread is at the lock
InitNoSide ==
    /\ InitNoPure
    /\ artist = <<>>
    /\ title = <<>>
    /\ search_queries = <<>>
    /\ builds = 0
    /\ tpc = [t \in Threads |-> "none"]
    /\ tround = [t \in Threads |-> 0]

\* no concurrent request is running
InitNoRequests ==
    /\ rpc = [r \in Requests |-> "none"]
    /\ rname = [r \in Requests |-> "none"]
    /\ rdir = [r \in Requests |-> 0]
    /\ rsent = [r \in Requests |-> 0]
    /\ tmpdirs = {}
    /\ tmpzips = [n \in AlbumNames |-> 0]

\* locals of the handler, of the engines and of the pool before the
\* handler runs
InitLocals ==
    /\ pc = "start"
    /\ temp_dir = FALSE
    /\ dirExists = FALSE
    /\ deletions = 0
    /\ cleanupRegistered = FALSE
    /\ response = "none"
    /\ files = NoFiles
    /\ junk = {}
    /\ newest = NoFile
    /\ archive = <<>>
    /\ successful_downloads = 0
    /\ i = 0
    /\ attempt = 0
    /\ source_idx = 0
    /\ attempts = 0
    /\ tried = <<>>
    /\ had_error = FALSE
    /\ slept = 0
    /\ order = <<>>
    /\ downloaded_file = NoFile
    /\ tagged = "none"
    /\ last_outcome = "none"
    /\ track_result = [p \in 1..Len(collection) |-> "pending"]
    /\ wpc = [w \in Workers |-> "idle"]
    /\ wtask = [w \in Workers |-> 0]
    /\ wattempt = [w \in Workers |-> 0]
    /\ wsleep = [w \in Workers |-> 0]
    /\ wpath = [w \in Workers |-> NoFile]
    /\ wtag = [w \in Workers |-> "none"]
    /\ lock = 0
    /\ submitted = 0
    /\ results = <<>>
    /\ zip_path = FALSE
    /\ zipExists = FALSE
    /\ zipDeletions = 0

\* the two names are interchangeable: the first track is named "a"
Init ==
    /\ variant \in Variants
    /\ collection \in SeqsUpTo(Names, MaxTracks)
    /\ collection # <<>> => collection[1] = "a"
    /\ variant \in {"stream_track", "stream_file"} => Len(collection) = 1
    /\ InitLocals
    /\ InitNoRequests
    /\ InitNoSide

\* ------------------------------------------------ shared handler fragments
\* "return jsonify(...), code" with no cleanup on the way out
Return(code) ==
    /\ response' = code
    /\ pc' = "after_request"

\* shutil.rmtree(temp_dir, ignore_errors=True) guarded by "if temp_dir"
RemoveTempDir ==
    IF temp_dir /\ dirExists
    THEN dirExists' = FALSE /\ deletions' = deletions + 1
    ELSE UNCHANGED <<dirExists, deletions>>

\* ===================================================== app.py: the engine
\* safe_title of the track the engine works on
CurName == tracks[i + 1]

\* variant of TagReturn in which a failed tagging step discards the file
TagReturnOnlyIfTagged(tagOk, final_file) ==
    IF tagOk THEN final_file ELSE NoFile

\* lines 297-302: the path is returned whether or not tagging succeeded
TagReturn(tagOk, final_file) == final_file

\* variant of DownloadTrack without the try/except of download_track
DownloadTrackNoCatch(raised, value) ==
    IF raised THEN "exception" ELSE value

\* lines 318-324: download_track returns what the engine returns, and None
\* when an exception escapes the engine
DownloadTrack(raised, value) ==
    IF raised THEN NoFile ELSE value

\* variant of AfterFile in which the loops go on after a file was produced
AfterFileKeepTrying == "engine"

\* lines 299 and 302: "return final_file" leaves both loops
AfterFile == "after_engine"

\* variant of NextPair with the source loop outside the query loop
NextPairSourceOuter(a, s) ==
    IF a < NumQueries THEN <<a + 1, s>>
    ELSE IF s < NumSources THEN <<1, s + 1>>
    ELSE <<0, 0>>

\* variant of NextPair stopping after the sources of the first query
NextPairFirstQueryOnly(a, s) ==
    IF s < NumSources THEN <<a, s + 1>> ELSE <<0, 0>>

\* lines 246-249: "for attempt, search_query in enumerate(search_queries, 1)"
\* around "for source_idx, source in enumerate(sources, 1)"; <<0, 0>> when
\* both loops are over
NextPair(a, s) ==
    IF s < NumSources THEN <<a, s + 1>>
    ELSE IF a < NumQueries THEN <<a + 1, 1>>
    ELSE <<0, 0>>

\* lines 304-313: both except clauses "continue" past the sleep; an attempt
\* that ends without exception and without a file reaches time.sleep(2)
SleepAfter(outcome) == IF outcome = "empty" THEN 2 ELSE 0

\* entry of the engine: download_track -> download_track_with_enhanced_fallbacks
EngineStart ==
    /\ pc' = "engine"
    /\ attempt' = 1
    /\ source_idx' = 1
    /\ attempts' = 0
    /\ tried' = <<>>
    /\ had_error' = FALSE
    /\ slept' = 0
    /\ tagged' = "none"
    /\ last_outcome' = "none"
    /\ downloaded_file' = NoFile

\* the engine's locals go out of scope when the caller is done with the
\* returned path
EngineReset ==
    /\ attempt' = 0
    /\ source_idx' = 0
    /\ attempts' = 0
    /\ tried' = <<>>
    /\ had_error' = FALSE
    /\ slept' = 0
    /\ tagged' = "none"
    /\ last_outcome' = "none"
    /\ downloaded_file' = NoFile

\* next (query, source) pair of the two nested loops, or "return None"
EngineAdvance ==
    /\ attempts' = attempts + 1
    /\ tried' = Append(tried, <<attempt, source_idx>>)
    /\ IF NextPair(attempt, source_idx) # <<0, 0>>
       THEN /\ attempt' = NextPair(attempt, source_idx)[1]
            /\ source_idx' = NextPair(attempt, source_idx)[2]
            /\ UNCHANGED <<pc, downloaded_file>>
       ELSE /\ pc' = "after_engine"
            /\ downloaded_file' = DownloadTrack(FALSE, NoFile)
            /\ UNCHANGED <<attempt, source_idx>>

\* the attempt raised (search, download, move or client construction):
\* both except clauses "continue" with the next source
Engine_Error ==
    /\ pc = "engine"
    /\ last_outcome' = "error"
    /\ had_error' = TRUE
    /\ slept' = SleepAfter("error")
    /\ EngineAdvance
    /\ UNCHANGED <<variant, order, reqVars, sideVars, collection, handlerVars, files, junk, newest,
                   archive, successful_downloads, i, tagged, track_result,
                   workerVars, zipFileVars>>

\* the search returned no entries, or the download left no matching .mp3:
\* falls out of the with-block, sleeps 2 s, next source
Engine_NoFile ==
    /\ pc = "engine"
    /\ last_outcome' = "empty"
    /\ slept' = SleepAfter("empty")
    /\ EngineAdvance
    /\ UNCHANGED had_error
    /\ UNCHANGED <<variant, order, reqVars, sideVars, collection, handlerVars, files, junk, newest,
                   archive, successful_downloads, i, tagged, track_result,
                   workerVars, zipFileVars>>

\* the download produced the temp file: move it to safe_title.mp3, tag it,
\* return the final path
Engine_Success ==
    /\ pc = "engine"
    /\ \E tagOk \in BOOLEAN :
         /\ tagged' = (IF tagOk THEN "ok" ELSE "failed")
         /\ downloaded_file' = DownloadTrack(FALSE, TagReturn(tagOk, CurName))
    /\ pc' = AfterFile
    /\ attempts' = attempts + 1
    /\ tried' = Append(tried, <<attempt, source_idx>>)
    /\ last_outcome' = "file"
    /\ slept' = 0
    /\ files' = [files EXCEPT ![CurName] = i + 1]
    /\ newest' = CurName
    /\ UNCHANGED <<variant, order, reqVars, sideVars, collection, handlerVars, junk, archive,
                   successful_downloads, i, attempt, source_idx, had_error,
                   track_result, workerVars, zipFileVars>>

\* lines 228-244 raised before the first attempt (sanitizing the title,
\* clearing the cache, building the queries): the exception leaves the
\* engine and download_track turns it into None
Engine_Raise ==
    /\ pc = "engine"
    /\ attempts = 0
    /\ pc' = "after_engine"
    /\ last_outcome' = "raised"
    /\ downloaded_file' = DownloadTrack(TRUE, NoFile)
    /\ UNCHANGED <<variant, order, reqVars, sideVars, collection, handlerVars, files,
                   junk, newest, archive, successful_downloads, i, attempt,
                   source_idx, attempts, tried, had_error, slept, tagged,
                   track_result, workerVars, zipFileVars>>

\* =============================================== app.py: stream_track
StreamTrack_Mkdtemp ==
    /\ variant = "stream_track"
    /\ pc = "start"
    /\ \/ /\ temp_dir' = TRUE
          /\ dirExists' = TRUE
          /\ pc' = "lookup"
          /\ UNCHANGED <<deletions, response>>
       \/ \* mkdtemp raised: except clause, temp_dir is None
          /\ Return("500_error")
          /\ UNCHANGED <<temp_dir, dirExists, deletions>>
    /\ UNCHANGED <<variant, order, reqVars, sideVars, collection, cleanupRegistered, files, junk, newest,
                   archive, appVars, tagged, last_outcome, workerVars,
                   zipFileVars>>

\* get_track_info: None -> 404, returned from inside the try block
StreamTrack_Lookup ==
    /\ variant = "stream_track"
    /\ pc = "lookup"
    /\ \/ /\ Return("404")
          /\ UNCHANGED <<attempt, source_idx, attempts, tried, had_error, slept,
                         downloaded_file,
                         tagged, last_outcome>>
       \/ /\ EngineStart
          /\ UNCHANGED response
    /\ UNCHANGED <<variant, order, reqVars, sideVars, collection, temp_dir, dirExists, deletions,
                   cleanupRegistered, files, junk, newest, archive,
                   successful_downloads, i, track_result, workerVars,
                   zipFileVars>>

\* lines 516-541: failure response, or register cleanup and send the file;
\* an exception of send_file runs the except clause
StreamTrack_Result ==
    /\ variant = "stream_track"
    /\ pc = "after_engine"
    /\ IF downloaded_file = NoFile \/ ~Exists(downloaded_file)
       THEN /\ Return("500_failed")
            /\ track_result' = [track_result EXCEPT ![1] = "failed"]
            /\ UNCHANGED <<cleanupRegistered, dirExists, deletions>>
       ELSE /\ cleanupRegistered' = TRUE
            /\ track_result' = [track_result EXCEPT ![1] = "file"]
            /\ \/ /\ Return("200_file")
                  /\ UNCHANGED <<dirExists, deletions>>
               \/ /\ Return("500_error")
                  /\ RemoveTempDir
    /\ EngineReset
    /\ UNCHANGED <<variant, order, reqVars, sideVars, collection, temp_dir, files, junk, newest, archive,
                   successful_downloads, i, workerVars, zipFileVars>>

\* cleanup registered with after_this_request (lines 526-533)
StreamTrack_Cleanup ==
    /\ variant = "stream_track"
    /\ pc = "after_request"
    /\ pc' = "done"
    /\ IF cleanupRegistered THEN RemoveTempDir
                            ELSE UNCHANGED <<dirExists, deletions>>
    /\ UNCHANGED <<variant, order, reqVars, sideVars, collection, temp_dir, cleanupRegistered, response,
                   files, junk, newest, archive, appVars, tagged, last_outcome,
                   workerVars, zipFileVars>>

\* =============================================== app.py: download_zip
\* variant of EntryPrefix numbering the entries by successes so far
EntryPrefixBySuccess(idx, succ) == Pad2(succ + 1)

\* zip_filename prefix f"{i+1:02d}"
EntryPrefix(idx, succ) == Pad2(idx + 1)

Entry(prefix, name, pos, kind) ==
    [prefix |-> prefix, name |-> name, pos |-> pos, kind |-> kind]

\* variant of AfterTrackError in which the exception ends the loop
AfterTrackErrorAbort(idx, total) == total

\* lines 603-605: the per-track except clause logs and "continue"s with
\* the next index
AfterTrackError(idx, total) == idx + 1

AppZip_Mkdtemp ==
    /\ variant = "app_zip"
    /\ pc = "start"
    /\ \/ /\ temp_dir' = TRUE
          /\ dirExists' = TRUE
          /\ pc' = "lookup"
          /\ UNCHANGED <<deletions, response>>
       \/ /\ Return("500_error")
          /\ UNCHANGED <<temp_dir, dirExists, deletions>>
    /\ UNCHANGED <<variant, order, reqVars, sideVars, collection, cleanupRegistered, files, junk, newest,
                   archive, appVars, tagged, last_outcome, workerVars,
                   zipFileVars>>

\* info_func(item_id): None -> 404 returned from inside the try block
AppZip_Lookup ==
    /\ variant = "app_zip"
    /\ pc = "lookup"
    /\ \/ Return("404")
       \/ /\ pc' = "loop"
          /\ UNCHANGED response
    /\ UNCHANGED <<variant, order, reqVars, sideVars, collection, temp_dir, dirExists, deletions,
                   cleanupRegistered, files, junk, newest, archive, appVars,
                   tagged, last_outcome, workerVars, zipFileVars>>

\* top of the loop body (lines 570-591): build the metadata and call
\* download_track; an exception here is caught by the per-track except
AppZip_TrackStart ==
    /\ variant = "app_zip"
    /\ pc = "loop"
    /\ i < total_tracks
    /\ order' = Append(order, i + 1)
    /\ \/ /\ EngineStart
          /\ UNCHANGED <<i, track_result>>
       \/ /\ track_result' = [track_result EXCEPT ![i + 1] = "prep_raised"]
          /\ i' = AfterTrackError(i, total_tracks)
          /\ UNCHANGED <<pc, attempt, source_idx, attempts, tried, had_error, slept,
                         downloaded_file,
                         tagged, last_outcome>>
    /\ UNCHANGED <<variant, reqVars, sideVars, collection, handlerVars, files, junk,
                   newest, archive, successful_downloads, workerVars,
                   zipFileVars>>

\* lines 593-605: archive the file, remove it, count it; zip_file.write or
\* os.remove may raise, which the per-track except turns into "continue"
AppZip_TrackEnd ==
    /\ variant = "app_zip"
    /\ pc = "after_engine"
    /\ pc' = "loop"
    /\ IF downloaded_file # NoFile /\ Exists(downloaded_file)
       THEN \/ /\ archive' = Append(archive,
                       Entry(EntryPrefix(i, successful_downloads),
                             downloaded_file, files[downloaded_file], "mp3"))
               /\ files' = [files EXCEPT ![downloaded_file] = 0]
               /\ successful_downloads' = successful_downloads + 1
               /\ track_result' = [track_result EXCEPT ![i + 1] = "archived"]
               /\ i' = i + 1
            \/ \* zip_file.write raised
               /\ track_result' = [track_result EXCEPT ![i + 1] = "write_raised"]
               /\ i' = AfterTrackError(i, total_tracks)
               /\ UNCHANGED <<archive, files, successful_downloads>>
            \/ \* os.remove raised after the entry was written
               /\ archive' = Append(archive,
                       Entry(EntryPrefix(i, successful_downloads),
                             downloaded_file, files[downloaded_file], "mp3"))
               /\ track_result' = [track_result EXCEPT ![i + 1] = "remove_raised"]
               /\ i' = AfterTrackError(i, total_tracks)
               /\ UNCHANGED <<files, successful_downloads>>
       ELSE /\ track_result' = [track_result EXCEPT ![i + 1] = "failed"]
            /\ i' = i + 1
            /\ UNCHANGED <<archive, files, successful_downloads>>
    /\ EngineReset
    /\ UNCHANGED <<variant, order, reqVars, sideVars, collection, handlerVars, junk, newest, workerVars,
                   zipFileVars>>

\* lines 607-637: no success -> 500; else register cleanup and send the
\* archive; an exception of send_file runs the except clause
AppZip_Finish ==
    /\ variant = "app_zip"
    /\ pc = "loop"
    /\ i >= total_tracks
    /\ IF successful_downloads = 0
       THEN /\ Return("500_no_tracks")
            /\ UNCHANGED <<cleanupRegistered, dirExists, deletions>>
       ELSE /\ cleanupRegistered' = TRUE
            /\ \/ /\ Return("200_zip")
                  /\ UNCHANGED <<dirExists, deletions>>
               \/ /\ Return("500_error")
                  /\ RemoveTempDir
    /\ UNCHANGED <<variant, order, reqVars, sideVars, collection, temp_dir, files, junk, newest, archive,
                   appVars, tagged, last_outcome, workerVars, zipFileVars>>

\* cleanup registered with after_this_request (lines 612-619)
AppZip_Cleanup ==
    /\ variant = "app_zip"
    /\ pc = "after_request"
    /\ pc' = "done"
    /\ IF cleanupRegistered THEN RemoveTempDir
                            ELSE UNCHANGED <<dirExists, deletions>>
    /\ UNCHANGED <<variant, order, reqVars, sideVars, collection, temp_dir, cleanupRegistered, response,
                   files, junk, newest, archive, appVars, tagged, last_outcome,
                   workerVars, zipFileVars>>

NextApp ==
    \/ Engine_Raise
    \/ Engine_Error
    \/ Engine_NoFile
    \/ Engine_Success
    \/ StreamTrack_Mkdtemp
    \/ StreamTrack_Lookup
    \/ StreamTrack_Result
    \/ StreamTrack_Cleanup
    \/ AppZip_Mkdtemp
    \/ AppZip_Lookup
    \/ AppZip_TrackStart
    \/ AppZip_TrackEnd
    \/ AppZip_Finish
    \/ AppZip_Cleanup

\* ================================ main.py: search_and_download_youtube
\* one worker (a pool thread of download_zip, or the request thread of
\* stream_file) running the engine for the track at position wtask[w]
TaskName(w) == tracks[wtask[w]]

\* lines 199-203: the newest .mp3 of the workspace replaces a missing
\* expected file
FallbackFile(fs, nw, expected) ==
    IF \E n \in Names : fs[n] # 0 THEN nw ELSE expected

\* variant of CheckedFile without the existence check
CheckedFileNoCheck(fs, path) == path

\* line 206: the path is used only if a file exists there
CheckedFile(fs, path) ==
    IF path \in Names /\ fs[path] # 0 THEN path ELSE NoFile

\* lines 207-212: the path is returned whether or not tagging succeeded
TagReturnMain(tagOk, expected_file) == expected_file

\* variant of SleepsAfter sleeping after every failed attempt
SleepsAfterEvery(k) == TRUE

\* line 223: "if attempt < max_retries - 1"
SleepsAfter(k) == k < MaxRetries - 1

\* line 224: time.sleep(2 ** attempt)
BackoffDelay(k) == 2 ^ k

WorkerStart(w, p) ==
    /\ wtask' = [wtask EXCEPT ![w] = p]
    /\ wattempt' = [wattempt EXCEPT ![w] = 0]
    /\ wsleep' = [wsleep EXCEPT ![w] = 0]
    /\ wpath' = [wpath EXCEPT ![w] = NoFile]
    /\ wtag' = [wtag EXCEPT ![w] = "none"]
    /\ wpc' = [wpc EXCEPT ![w] = "lock"]

\* the worker's locals go out of scope when its caller has the result
WorkerReset(w) ==
    /\ wtask' = [wtask EXCEPT ![w] = 0]
    /\ wattempt' = [wattempt EXCEPT ![w] = 0]
    /\ wsleep' = [wsleep EXCEPT ![w] = 0]
    /\ wpath' = [wpath EXCEPT ![w] = NoFile]
    /\ wtag' = [wtag EXCEPT ![w] = "none"]
    /\ wpc' = [wpc EXCEPT ![w] = "idle"]

\* end of one iteration of "for attempt in range(max_retries)"
NextAttempt(w) ==
    /\ wsleep' = [wsleep EXCEPT ![w] = 0]
    /\ IF wattempt[w] + 1 < MaxRetries
       THEN /\ wattempt' = [wattempt EXCEPT ![w] = wattempt[w] + 1]
            /\ wpc' = [wpc EXCEPT ![w] = "lock"]
            /\ UNCHANGED wpath
       ELSE /\ wpc' = [wpc EXCEPT ![w] = "ret"]
            /\ wpath' = [wpath EXCEPT ![w] = NoFile]
            /\ UNCHANGED wattempt

\* variant of LockFree in which the lock never blocks
LockFreeAlways(l) == TRUE

\* threading.Lock.acquire returns only when no thread holds the lock
LockFree(l) == l = 0

\* an intermediate file (.part, .webm) a failed download leaves behind
Leftover == "part"

\* "with self.lock:" entered
W_Acquire(w) ==
    /\ wpc[w] = "lock"
    /\ LockFree(lock)
    /\ lock' = w
    /\ wpc' = [wpc EXCEPT ![w] = "fetch"]
    /\ UNCHANGED <<variant, order, reqVars, sideVars, pc, collection, handlerVars, files, junk, newest,
                   archive, appVars, tagged, last_outcome, wtask, wattempt, wsleep,
                   wpath, wtag, submitted, results, zipFileVars>>

\* ydl.extract_info(search_query, download=True) inside the lock; leaving
\* the with-block releases the lock on return and on exception
W_Fetch(w) ==
    /\ wpc[w] = "fetch"
    /\ lock = w
    /\ lock' = 0
    /\ \/ \* the download wrote safe_filename.mp3
          /\ files' = [files EXCEPT ![TaskName(w)] = wtask[w]]
          /\ newest' = TaskName(w)
          /\ UNCHANGED junk
          /\ wpc' = [wpc EXCEPT ![w] = "check"]
       \/ \* the call returned without writing a file
          /\ wpc' = [wpc EXCEPT ![w] = "check"]
          /\ UNCHANGED <<files, newest, junk>>
       \/ \* the call raised; an intermediate file may be left behind
          /\ junk' \in {junk, junk \cup {Leftover}}
          /\ wpc' = [wpc EXCEPT ![w] = "except"]
          /\ UNCHANGED <<files, newest>>
    /\ UNCHANGED <<variant, order, reqVars, sideVars, pc, collection, handlerVars, archive, appVars,
                   tagged, last_outcome, wtask, wattempt, wsleep, wpath, wtag,
                   submitted, results, zipFileVars>>

\* lines 197-199: expected_file, os.path.exists(expected_file)
W_Check(w) ==
    /\ wpc[w] = "check"
    /\ IF Exists(TaskName(w))
       THEN /\ wpath' = [wpath EXCEPT ![w] = TaskName(w)]
            /\ wpc' = [wpc EXCEPT ![w] = "tag"]
       ELSE /\ wpc' = [wpc EXCEPT ![w] = "fallback"]
            /\ UNCHANGED wpath
    /\ UNCHANGED <<variant, order, reqVars, sideVars, pc, collection, handlerVars, files, junk, newest,
                   archive, appVars, tagged, last_outcome, wtask, wattempt, wsleep,
                   wtag, lock, submitted, results, zipFileVars>>

\* lines 200-219: newest-.mp3 fallback, then the existence check
W_Fallback(w) ==
    /\ wpc[w] = "fallback"
    /\ LET path == CheckedFile(files,
                       FallbackFile(files, newest, TaskName(w)))
       IN  IF path # NoFile
           THEN /\ wpath' = [wpath EXCEPT ![w] = path]
                /\ wpc' = [wpc EXCEPT ![w] = "tag"]
                /\ UNCHANGED <<wattempt, wsleep>>
           ELSE NextAttempt(w)
    /\ UNCHANGED <<variant, order, reqVars, sideVars, pc, collection, handlerVars, files, junk, newest,
                   archive, appVars, tagged, last_outcome, wtask, wtag, lock,
                   submitted, results, zipFileVars>>

\* lines 207-212: add_metadata_to_file, then return expected_file
W_Tag(w) ==
    /\ wpc[w] = "tag"
    /\ \E tagOk \in BOOLEAN :
         /\ wtag' = [wtag EXCEPT ![w] = IF tagOk THEN "ok" ELSE "failed"]
         /\ wpath' = [wpath EXCEPT ![w] = TagReturnMain(tagOk, wpath[w])]
    /\ wpc' = [wpc EXCEPT ![w] = "ret"]
    /\ UNCHANGED <<variant, order, reqVars, sideVars, pc, collection, handlerVars, files, junk, newest,
                   archive, appVars, tagged, last_outcome, wtask, wattempt, wsleep,
                   lock, submitted, results, zipFileVars>>

\* lines 221-224: except clause of the attempt; sleeps unless it was the
\* last attempt
W_Except(w) ==
    /\ wpc[w] = "except"
    /\ IF SleepsAfter(wattempt[w])
       THEN /\ wpc' = [wpc EXCEPT ![w] = "backoff"]
            /\ wsleep' = [wsleep EXCEPT ![w] = BackoffDelay(wattempt[w])]
            /\ UNCHANGED <<wattempt, wpath>>
       ELSE NextAttempt(w)
    /\ UNCHANGED <<variant, order, reqVars, sideVars, pc, collection, handlerVars, files, junk, newest,
                   archive, appVars, tagged, last_outcome, wtask, wtag, lock,
                   submitted, results, zipFileVars>>

\* time.sleep(2 ** attempt) is over: next attempt
W_Backoff(w) ==
    /\ wpc[w] = "backoff"
    /\ NextAttempt(w)
    /\ UNCHANGED <<variant, order, reqVars, sideVars, pc, collection, handlerVars, files, junk, newest,
                   archive, appVars, tagged, last_outcome, wtask, wtag, lock,
                   submitted, results, zipFileVars>>

\* =============================================== main.py: stream_file
StreamFile_Mkdtemp ==
    /\ variant = "stream_file"
    /\ pc = "start"
    /\ \/ /\ temp_dir' = TRUE
          /\ dirExists' = TRUE
          /\ pc' = "lookup"
          /\ UNCHANGED <<deletions, response>>
       \/ /\ Return("500_error")
          /\ UNCHANGED <<temp_dir, dirExists, deletions>>
    /\ UNCHANGED <<variant, order, reqVars, sideVars, collection, cleanupRegistered, files, junk, newest,
                   archive, appVars, tagged, last_outcome, workerVars,
                   zipFileVars>>

\* get_track_info: None -> 404 returned from inside the try block;
\* otherwise the engine runs inline in the request thread
StreamFile_Lookup ==
    /\ variant = "stream_file"
    /\ pc = "lookup"
    /\ \/ /\ Return("404")
          /\ UNCHANGED <<wpc, wtask, wattempt, wsleep, wpath, wtag>>
       \/ /\ pc' = "inline"
          /\ WorkerStart(1, 1)
          /\ UNCHANGED response
    /\ UNCHANGED <<variant, order, reqVars, sideVars, collection, temp_dir, dirExists, deletions,
                   cleanupRegistered, files, junk, newest, archive, appVars,
                   tagged, last_outcome, lock, submitted, results,
                   zipFileVars>>

\* lines 430-461
StreamFile_Result ==
    /\ variant = "stream_file"
    /\ pc = "inline"
    /\ wpc[1] = "ret"
    /\ WorkerReset(1)
    /\ IF wpath[1] = NoFile \/ ~Exists(wpath[1])
       THEN /\ Return("500_failed")
            /\ RemoveTempDir
            /\ UNCHANGED cleanupRegistered
       ELSE /\ cleanupRegistered' = TRUE
            /\ \/ /\ Return("200_file")
                  /\ UNCHANGED <<dirExists, deletions>>
               \/ /\ Return("500_error")
                  /\ RemoveTempDir
    /\ UNCHANGED <<variant, order, reqVars, sideVars, collection, temp_dir, files, junk, newest, archive,
                   appVars, tagged, last_outcome, lock, submitted, results,
                   zipFileVars>>

\* cleanup registered with after_this_request (lines 439-447)
StreamFile_Cleanup ==
    /\ variant = "stream_file"
    /\ pc = "after_request"
    /\ pc' = "done"
    /\ IF cleanupRegistered THEN RemoveTempDir
                            ELSE UNCHANGED <<dirExists, deletions>>
    /\ UNCHANGED <<variant, order, reqVars, sideVars, collection, temp_dir, cleanupRegistered, response,
                   files, junk, newest, archive, appVars, tagged, last_outcome,
                   workerVars, zipFileVars>>

\* =============================================== main.py: download_zip
\* os.remove(zip_path) guarded by "zip_path and os.path.exists(zip_path)"
RemoveZip ==
    IF zip_path /\ zipExists
    THEN zipExists' = FALSE /\ zipDeletions' = zipDeletions + 1
    ELSE UNCHANGED <<zipExists, zipDeletions>>

\* what shutil.make_archive finds in zip_temp_dir: every file of the
\* directory, named by its file name
DirEntries ==
    {Entry(<<>>, n, files[n], "mp3") : n \in {m \in Names : files[m] # 0}}
        \cup {Entry(<<>>, n, 0, "junk") : n \in junk}

\* info_func(item_id) is called before the workspace exists
MainZip_Lookup ==
    /\ variant = "main_zip"
    /\ pc = "start"
    /\ \/ Return("404")
       \/ /\ pc' = "mkdtemp"
          /\ UNCHANGED response
    /\ UNCHANGED <<variant, order, reqVars, sideVars, collection, temp_dir, dirExists, deletions,
                   cleanupRegistered, files, junk, newest, archive, appVars,
                   tagged, last_outcome, workerVars, zipFileVars>>

\* the except clause of the handler (lines 538-546)
MainZip_Except ==
    /\ Return("500_error")
    /\ RemoveTempDir
    /\ RemoveZip

MainZip_Mkdtemp ==
    /\ variant = "main_zip"
    /\ pc = "mkdtemp"
    /\ \/ /\ temp_dir' = TRUE
          /\ dirExists' = TRUE
          /\ pc' = "pool"
          /\ UNCHANGED <<deletions, response, zipExists, zipDeletions>>
       \/ /\ MainZip_Except
          /\ UNCHANGED temp_dir
    /\ UNCHANGED <<variant, order, reqVars, sideVars, collection, cleanupRegistered, files, junk, newest,
                   archive, appVars, tagged, last_outcome, workerVars,
                   zip_path>>

\* a pool thread takes the next submitted track (download_track_for_zip);
\* the pool's threads are alike: the idle one of lowest index takes it;
\* an exception before the engine is called gives the "Error" outcome
W_Pick(w) ==
    /\ variant = "main_zip"
    /\ pc \in {"pool", "aborting"}
    /\ wpc[w] = "idle"
    /\ \A v \in Workers : v < w => wpc[v] # "idle"
    /\ submitted < Len(tracks)
    /\ submitted' = submitted + 1
    /\ order' = Append(order, submitted + 1)
    /\ \/ /\ WorkerStart(w, submitted + 1)
          /\ UNCHANGED results
       \/ /\ results' = Append(results,
                               [pos |-> submitted + 1, res |-> "Error"])
          /\ UNCHANGED <<wpc, wtask, wattempt, wsleep, wpath, wtag>>
    /\ UNCHANGED <<variant, reqVars, sideVars, pc, collection, handlerVars, files, junk, newest,
                   archive, appVars, tagged, last_outcome, lock, zipFileVars>>

\* lines 501-504: the result of a future is added to the results, which
\* the handler only logs; they are kept in the order of the positions
AddResult(rs, r) ==
    SelectSeq(rs, LAMBDA x : x.pos < r.pos) \o <<r>>
        \o SelectSeq(rs, LAMBDA x : x.pos > r.pos)

\* line 488: the engine returned; the future completes
W_Return(w) ==
    /\ variant = "main_zip"
    /\ wpc[w] = "ret"
    /\ results' = AddResult(results,
           [pos |-> wtask[w],
            res |-> IF wpath[w] # NoFile THEN "Downloaded" ELSE "Failed"])
    /\ WorkerReset(w)
    /\ UNCHANGED <<variant, order, reqVars, sideVars, pc, collection, handlerVars, files, junk, newest,
                   archive, appVars, tagged, last_outcome, lock, submitted,
                   zipFileVars>>

\* variant of AllFuturesDone that leaves the loop at the first result
AllFuturesDoneFirst == Len(results) >= 1 \/ Len(tracks) = 0

\* lines 500-504: as_completed has yielded every submitted future, each
\* with one result string
AllFuturesDone == Len(results) = Len(tracks)

\* lines 494-536: every future has completed and the pool is shut down;
\* make_archive zips the workspace directory, then the file is sent
MainZip_Archive ==
    /\ variant = "main_zip"
    /\ pc = "pool"
    /\ AllFuturesDone
    /\ \/ \* make_archive raised
          /\ MainZip_Except
          /\ UNCHANGED <<archive, zip_path, cleanupRegistered>>
       \/ /\ archive' \in Perms(DirEntries)
          /\ zip_path' = TRUE
          /\ cleanupRegistered' = TRUE
          /\ \/ /\ Return("200_zip")
                /\ zipExists' = TRUE
                /\ UNCHANGED <<dirExists, deletions, zipDeletions>>
             \/ \* send_file raised: the except clause removes both
                /\ Return("500_error")
                /\ RemoveTempDir
                /\ zipExists' = FALSE
                /\ zipDeletions' = zipDeletions + 1
    /\ UNCHANGED <<variant, order, reqVars, sideVars, collection, temp_dir, files, junk, newest, appVars,
                   tagged, last_outcome, workerVars>>

\* cleanup registered with after_this_request (lines 519-529)
MainZip_Cleanup ==
    /\ variant = "main_zip"
    /\ pc = "after_request"
    /\ pc' = "done"
    /\ IF cleanupRegistered
       THEN RemoveTempDir /\ RemoveZip
       ELSE UNCHANGED <<dirExists, deletions, zipExists, zipDeletions>>
    /\ UNCHANGED <<variant, order, reqVars, sideVars, collection, temp_dir, cleanupRegistered, response,
                   files, junk, newest, archive, appVars, tagged, last_outcome,
                   workerVars, zip_path>>

NextMain ==
    \/ \E w \in Workers : W_Acquire(w)
    \/ \E w \in Workers : W_Fetch(w)
    \/ \E w \in Workers : W_Check(w)
    \/ \E w \in Workers : W_Fallback(w)
    \/ \E w \in Workers : W_Tag(w)
    \/ \E w \in Workers : W_Except(w)
    \/ \E w \in Workers : W_Backoff(w)
    \/ \E w \in Workers : W_Pick(w)
    \/ \E w \in Workers : W_Return(w)
    \/ StreamFile_Mkdtemp
    \/ StreamFile_Lookup
    \/ StreamFile_Result
    \/ StreamFile_Cleanup
    \/ MainZip_Lookup
    \/ MainZip_Mkdtemp
    \/ MainZip_Archive
    \/ MainZip_Cleanup

Next == NextApp \/ NextMain

Spec == Init /\ [][Next]_vars

\* =============================================== batches beyond the cap
\* number of tracks by which the longest collection exceeds the cap
CapExtra == 1

\* a batch request for a collection of about cap tracks, one or more beyond
InitCap ==
    /\ variant \in {"app_zip", "main_zip"}
    /\ collection \in {[k \in 1..n |-> "a"] : n \in (Cap - 1)..(Cap + CapExtra)}
    /\ InitLocals
    /\ InitNoRequests
    /\ InitNoSide

\* the batch handlers against a source whose first search produces the file
\* (app.py) and a pool whose tasks end before the engine is called (main.py)
NextCap ==
    \/ AppZip_Mkdtemp
    \/ AppZip_Lookup
    \/ AppZip_TrackStart
    \/ Engine_Success
    \/ AppZip_TrackEnd
    \/ AppZip_Finish
    \/ AppZip_Cleanup
    \/ MainZip_Lookup
    \/ MainZip_Mkdtemp
    \/ \E w \in Workers : W_Pick(w)
    \/ MainZip_Archive
    \/ MainZip_Cleanup

SpecCap == InitCap /\ [][NextCap]_vars

\* ================== main.py: two concurrent download_zip requests
\* the variables of the single-request specifications
singleVars == <<variant, pc, collection, handlerVars, files, junk, newest,
                archive, appVars, tagged, last_outcome, order, workerVars,
                zipFileVars>>

\* lines 506-514: os.path.join(tempfile.gettempdir(), safe_zip_base) plus
\* ".zip": the archive path is a function of the collection name alone
ZipPath(r) == rname[r]

\* "if zip_temp_dir and os.path.exists(zip_temp_dir): shutil.rmtree(...)"
R_RemoveDir(r) ==
    tmpdirs' = tmpdirs \ {rdir[r]}

\* "if zip_path and os.path.exists(zip_path): os.remove(zip_path)"
R_RemoveZip(r) ==
    tmpzips' = [tmpzips EXCEPT ![ZipPath(r)] = 0]

\* two requests for collections that were found, before their try block
InitTwo ==
    /\ variant = "main_zip"
    /\ collection = <<>>
    /\ InitLocals
    /\ rpc = [r \in Requests |-> "start"]
    /\ rname \in [Requests -> AlbumNames]
    /\ rdir = [r \in Requests |-> 0]
    /\ rsent = [r \in Requests |-> 0]
    /\ tmpdirs = {}
    /\ tmpzips = [n \in AlbumNames |-> 0]
    /\ InitNoSide

\* line 480: mkdtemp creates a directory under a name not in use
R_Mkdtemp(r) ==
    /\ rpc[r] = "start"
    /\ \E d \in DirIds \ (tmpdirs \cup {rdir[q] : q \in Requests}) :
          /\ rdir' = [rdir EXCEPT ![r] = d]
          /\ tmpdirs' = tmpdirs \cup {d}
    /\ rpc' = [rpc EXCEPT ![r] = "pool"]
    /\ UNCHANGED <<singleVars, sideVars, rname, rsent, tmpzips>>

\* lines 494-504: the pool has downloaded the tracks into zip_temp_dir
R_Pool(r) ==
    /\ rpc[r] = "pool"
    /\ rpc' = [rpc EXCEPT ![r] = "archive"]
    /\ UNCHANGED <<singleVars, sideVars, rname, rdir, rsent, tmpdirs, tmpzips>>

\* lines 510-514: make_archive writes the archive file, replacing a file
\* already at that path
R_MakeArchive(r) ==
    /\ rpc[r] = "archive"
    /\ tmpzips' = [tmpzips EXCEPT ![ZipPath(r)] = r]
    /\ rpc' = [rpc EXCEPT ![r] = "check"]
    /\ UNCHANGED <<singleVars, sideVars, rname, rdir, rsent, tmpdirs>>

\* lines 516-517 and 538-546: a missing archive file raises; the except
\* clause removes the directory and answers 500
R_Check(r) ==
    /\ rpc[r] = "check"
    /\ IF tmpzips[ZipPath(r)] # 0
       THEN /\ rpc' = [rpc EXCEPT ![r] = "send"]
            /\ UNCHANGED <<rsent, tmpdirs>>
       ELSE /\ rpc' = [rpc EXCEPT ![r] = "done"]
            /\ rsent' = [rsent EXCEPT ![r] = -1]
            /\ R_RemoveDir(r)
    /\ UNCHANGED <<singleVars, sideVars, rname, rdir, tmpzips>>

\* lines 519-536: the cleanup is registered and send_file opens the file at
\* zip_path; a missing file raises and the except clause answers 500
R_Send(r) ==
    /\ rpc[r] = "send"
    /\ rpc' = [rpc EXCEPT ![r] = "cleanup"]
    /\ IF tmpzips[ZipPath(r)] # 0
       THEN /\ rsent' = [rsent EXCEPT ![r] = tmpzips[ZipPath(r)]]
            /\ UNCHANGED tmpdirs
       ELSE /\ rsent' = [rsent EXCEPT ![r] = -1]
            /\ R_RemoveDir(r)
    /\ UNCHANGED <<singleVars, sideVars, rname, rdir, tmpzips>>

\* lines 519-529: the after_this_request cleanup removes the directory and
\* the file at zip_path
R_Cleanup(r) ==
    /\ rpc[r] = "cleanup"
    /\ rpc' = [rpc EXCEPT ![r] = "done"]
    /\ R_RemoveDir(r)
    /\ R_RemoveZip(r)
    /\ UNCHANGED <<singleVars, sideVars, rname, rdir, rsent>>

NextTwo ==
    \/ \E r \in Requests : R_Mkdtemp(r)
    \/ \E r \in Requests : R_Pool(r)
    \/ \E r \in Requests : R_MakeArchive(r)
    \/ \E r \in Requests : R_Check(r)
    \/ \E r \in Requests : R_Send(r)
    \/ \E r \in Requests : R_Cleanup(r)

SpecTwo == InitTwo /\ [][NextTwo]_vars

\* ======================================================= response bodies
\* what the caller receives with each response: the 'error' text of the
\* JSON body (fixed per exit of the handler), the error detail of an
\* engine attempt and the success counts carried by the response ("none"
\* and -1: the response carries none)
ResponseBody(code) ==
    [kind |-> IF code \in {"200_file", "200_zip"} THEN "file" ELSE "json",
     error |->
        CASE code = "404" -> "not found"
          [] code = "500_failed" ->
                IF variant = "stream_track"
                THEN "Download failed - track may not be available or accessible"
                ELSE "Could not process track"
          [] code = "500_no_tracks" -> "No tracks could be downloaded successfully"
          [] code = "500_error" ->
                IF variant = "main_zip" THEN "Failed to create ZIP file"
                ELSE "Internal server error"
          [] OTHER -> "none",
     detail |-> "none",
     succeeded |-> -1,
     total |-> -1]

\* ============================== app.py: the search queries of a track
\* characters of an artist or a title
Chars == {"p", "q", " "}

\* the literal parts of the f-strings; a word is one token
Sp == <<" ">>
Dash == <<" ", "-", " ">>
Word(w) == <<" ", w>>

\* lines 235-244: the eight f-strings, in list order
QueryList(a, t) ==
    << a \o Sp \o t,
       t \o Sp \o a,
       a \o Dash \o t,
       a \o Sp \o t \o Word("official"),
       a \o Sp \o t \o Word("audio"),
       t \o Dash \o a \o Word("official"),
       a \o Sp \o t \o Word("music"),
       t \o Sp \o a \o Word("song") >>

\* variant of SearchQueries leaving out the queries that need a missing part
SearchQueriesSkipMissing(a, t) ==
    IF a = <<>> \/ t = <<>> THEN <<a \o t, a \o t \o Word("audio")>>
    ELSE QueryList(a, t)

\* search_queries of download_track_with_enhanced_fallbacks
SearchQueries(a, t) == QueryList(a, t)

InitQueries ==
    /\ variant = "stream_track"
    /\ collection = <<"a">>
    /\ InitLocals
    /\ InitNoRequests
    /\ InitNoPure
    /\ artist \in SeqsUpTo(Chars, MaxNameLen)
    /\ title \in SeqsUpTo(Chars, MaxNameLen)
    /\ search_queries = <<>>
    /\ builds = 0
    /\ tpc = [t \in Threads |-> "none"]
    /\ tround = [t \in Threads |-> 0]

\* the engine is called for the track: the list is built
Q_Build ==
    /\ builds = 0
    /\ search_queries' = SearchQueries(artist, title)
    /\ builds' = 1
    /\ UNCHANGED <<singleVars, reqVars, artist, title, tpc, tround, pureVars>>

\* the engine is called again for the same metadata
Q_Rebuild ==
    /\ builds = 1
    /\ search_queries' = SearchQueries(artist, title)
    /\ builds' = 2
    /\ UNCHANGED <<singleVars, reqVars, artist, title, tpc, tround, pureVars>>

NextQueries == Q_Build \/ Q_Rebuild

SpecQueries == InitQueries /\ [][NextQueries]_vars

\* ================= threads sharing the downloader and its lock
\* every variable but the lock and the threads
lockOtherVars == <<variant, pc, collection, handlerVars, files, junk, newest,
                   archive, appVars, tagged, last_outcome, order, wpc, wtask,
                   wattempt, wsleep, wpath, wtag, submitted, results,
                   zipFileVars, reqVars, artist, title, search_queries,
                   builds, pureVars>>

\* threads of one process (request threads of the threaded server, pool
\* threads of a batch), each running the engine against the one module-level
\* downloader of app.py or of main.py
InitLock ==
    /\ variant \in Variants
    /\ collection = <<"a">>
    /\ InitLocals
    /\ InitNoRequests
    /\ InitNoPure
    /\ artist = <<>>
    /\ title = <<>>
    /\ search_queries = <<>>
    /\ builds = 0
    /\ tpc = [t \in Threads |-> "outside"]
    /\ tround = [t \in Threads |-> 0]

\* how a thread leaves "with self.lock:": a return from inside or right
\* after it ("file"), a fall-through without a file ("empty"), an exception
\* of the search or of the download ("error")
ExitKinds == {"file", "empty", "error"}

\* variant of HeldAfterExit that keeps the lock when an exception leaves
HeldAfterExitLeakOnError(kind, t) == IF kind = "error" THEN t ELSE 0

\* variant of HeldAfterExit with the sleep inside the with-block
HeldAfterExitSleepInside(kind, t) == IF kind = "file" THEN 0 ELSE t

\* the with statement releases the lock however the block is left
HeldAfterExit(kind, t) == 0

\* does the thread sleep after leaving the block at its attempt k:
\* app.py sleeps 2 s on the fall-through (line 313), main.py sleeps 2 ** k in
\* the except clause unless it was the last attempt (lines 223-224)
SleepsOnExit(v, kind, k) ==
    IF v \in {"stream_track", "app_zip"}
    THEN kind # "file" /\ SleepAfter(kind) > 0
    ELSE kind = "error" /\ SleepsAfter(k % MaxRetries)

\* the thread reaches "with self.lock:"
T_Request(t) ==
    /\ tpc[t] = "outside"
    /\ tpc' = [tpc EXCEPT ![t] = "waiting"]
    /\ UNCHANGED <<lockOtherVars, lock, tround>>

\* the lock is acquired: the YoutubeDL client is created and used
T_Enter(t) ==
    /\ tpc[t] = "waiting"
    /\ LockFree(lock)
    /\ lock' = t
    /\ tpc' = [tpc EXCEPT ![t] = "inside"]
    /\ UNCHANGED <<lockOtherVars, tround>>

\* the with-block is left (return, exception or fall-through): the lock is
\* released; the thread makes another attempt or is done
T_Exit(t) ==
    /\ tpc[t] = "inside"
    /\ \E kind \in ExitKinds :
         /\ lock' = HeldAfterExit(kind, t)
         /\ tpc' = [tpc EXCEPT ![t] =
                        IF kind = "file" THEN "done"
                        ELSE IF SleepsOnExit(variant, kind, tround[t])
                             THEN "sleeping"
                        ELSE IF tround[t] + 1 < MaxRounds
                             THEN "outside" ELSE "done"]
    /\ tround' = [tround EXCEPT ![t] = tround[t] + 1]
    /\ UNCHANGED lockOtherVars

\* time.sleep is over: the next attempt, or the engine gives up
T_Wake(t) ==
    /\ tpc[t] = "sleeping"
    /\ tpc' = [tpc EXCEPT ![t] = IF tround[t] < MaxRounds
                                 THEN "outside" ELSE "done"]
    /\ UNCHANGED <<lockOtherVars, lock, tround>>

NextLock ==
    \/ \E t \in Threads : T_Request(t)
    \/ \E t \in Threads : T_Enter(t)
    \/ \E t \in Threads : T_Exit(t)
    \/ \E t \in Threads : T_Wake(t)

SpecLock == InitLock /\ [][NextLock]_vars

\* the lock is handed to a waiting thread when it is free again and again;
\* every fetch call returns
FairLock ==
    \A t \in Threads : SF_vars(T_Enter(t)) /\ WF_vars(T_Exit(t))

SpecLockFair == SpecLock /\ FairLock

\* ================= app.py engine: selection of the entry to download
\* what the title of a returned entry holds: artist and title ("both"), not
\* both of them ("other"), or the entry has no title ("untitled")
EntryKinds == {"both", "other", "untitled"}

\* line 269: "for entry in info['entries'][:3]"
CheckedEntries == 3

\* lines 265-279: the first of the entries looked at whose title holds the
\* artist and the title; if there is none, info['entries'][0]
BestEntry(es) ==
    LET seen == {k \in 1..Min(CheckedEntries, Len(es)) : es[k] = "both"}
    IN  IF seen # {}
        THEN CHOOSE k \in seen : \A j \in seen : k <= j
        ELSE 1

\* the state the rest of the program is left in
matchOtherVars == <<singleVars, reqVars, artist, title, search_queries,
                    builds, tpc, tround, tagVars, optVars>>

\* a search that returned a non-empty list of entries (line 265)
InitMatch ==
    /\ variant = "stream_track"
    /\ collection = <<"a">>
    /\ InitLocals
    /\ InitNoRequests
    /\ artist = <<>>
    /\ title = <<>>
    /\ search_queries = <<>>
    /\ builds = 0
    /\ tpc = [t \in Threads |-> "none"]
    /\ tround = [t \in Threads |-> 0]
    /\ entries \in SeqsUpTo(EntryKinds, MaxCandidates) \ {<<>>}
    /\ best_entry = 0
    /\ InitNoTag
    /\ InitNoOpts

M_Select ==
    /\ best_entry = 0
    /\ best_entry' = BestEntry(entries)
    /\ UNCHANGED <<matchOtherVars, entries>>

NextMatch == M_Select

SpecMatch == InitMatch /\ [][NextMatch]_vars

\* ================= the tagger: add_metadata / add_metadata_to_file
\* app.py line 195: "len(metadata['cover_image_data']) < 300000"
CoverCeiling == 300000

\* the text frames, one per metadata field
TextFrames == {"TIT2", "TPE1", "TALB", "TDRC", "TRCK"}

\* sizes of the cover image around the ceiling; 0 is no image
CoverSizes ==
    {0, 1, CoverCeiling - 1, CoverCeiling}
        \cup {CoverCeiling + k : k \in 1..MaxCoverOver}

\* is the APIC frame set: app.py wants a non-empty image below 300000
\* bytes (line 195), main.py a non-empty image (line 154)
EmbedsCover(v, size) ==
    IF v \in {"stream_track", "app_zip"}
    THEN size # 0 /\ size < CoverCeiling
    ELSE size # 0

\* the frames of the file after audio_file.save(v2_version=3)
SavedFrames(v, fields, size) ==
    fields \cup (IF EmbedsCover(v, size) THEN {"APIC"} ELSE {})

tagOtherVars == <<singleVars, reqVars, artist, title, search_queries,
                  builds, tpc, tround, matchVars, optVars>>

\* a fetched file and the metadata of its track
InitTag ==
    /\ variant \in Variants
    /\ collection = <<"a">>
    /\ InitLocals
    /\ InitNoRequests
    /\ artist = <<>>
    /\ title = <<>>
    /\ search_queries = <<>>
    /\ builds = 0
    /\ tpc = [t \in Threads |-> "none"]
    /\ tround = [t \in Threads |-> 0]
    /\ InitNoMatch
    /\ InitNoOpts
    /\ cover_size \in CoverSizes
    /\ meta_fields \in SUBSET TextFrames
    /\ tags = {}
    /\ tag_result = "none"

\* the frames are set and saved: True
G_Tag ==
    /\ tag_result = "none"
    /\ tags' = SavedFrames(variant, meta_fields, cover_size)
    /\ tag_result' = "true"
    /\ UNCHANGED <<tagOtherVars, cover_size, meta_fields>>

\* mutagen raised (every attempt, in main.py): nothing is saved, False
G_TagRaised ==
    /\ tag_result = "none"
    /\ tag_result' = "false"
    /\ UNCHANGED <<tagOtherVars, cover_size, meta_fields, tags>>

NextTag == G_Tag \/ G_TagRaised

SpecTag == InitTag /\ [][NextTag]_vars

\* ================= the options of an attempt
\* threads building options at the same time
OptThreads == {1, 2}

\* the keys of the option dicts that an attempt sets; <<>> is "not set"
OptKeys == {"format", "outtmpl", "http_headers"}

\* ydl_base_opts (app.py lines 67-101) / ydl_opts (main.py lines 73-91) as
\* built by the constructor: no output template, no headers
BaseAtConstruction ==
    [k \in OptKeys |-> IF k = "format" THEN <<"bestaudio">> ELSE <<>>]

\* the metadata dict handed to the engine
MetaAtCall == [title |-> "t", artist |-> "a"]

\* self.user_agents, of which get_ydl_opts takes one at random
UserAgents == {<<"ua1">>, <<"ua2">>}

\* the output template of thread t at its attempt k (it holds the track's
\* name; in app.py also the attempt's numbers)
Template(t, k) == <<"tmpl", t, k>>

\* the dict object a copy made by thread t is
OwnDict == [t \in OptThreads |-> IF t = 1 THEN "d1" ELSE "d2"]

\* variant of CopyTarget without the copy: the name is bound to the
\* downloader's own dict
CopyTargetAlias(t) == "base"

\* "self.ydl_base_opts.copy()" / "self.ydl_opts.copy()": a new dict object,
\* which only thread t has a name for
CopyTarget(t) == OwnDict[t]

optOtherVars == <<singleVars, reqVars, artist, title, search_queries,
                  builds, tpc, tround, matchVars, tagVars>>

InitOpts ==
    /\ variant \in Variants
    /\ collection = <<"a">>
    /\ InitLocals
    /\ InitNoRequests
    /\ artist = <<>>
    /\ title = <<>>
    /\ search_queries = <<>>
    /\ builds = 0
    /\ tpc = [t \in Threads |-> "none"]
    /\ tround = [t \in Threads |-> 0]
    /\ InitNoMatch
    /\ InitNoTag
    /\ dicts = [d \in {"base", "meta", "d1", "d2"} |->
                   IF d = "base" THEN BaseAtConstruction
                   ELSE IF d = "meta" THEN MetaAtCall
                   ELSE <<>>]
    /\ oref = [t \in OptThreads |-> "none"]
    /\ opc = [t \in OptThreads |-> "start"]
    /\ oround = [t \in OptThreads |-> 0]

\* app.py line 119, main.py line 179: the copy of the base options
O_Copy(t) ==
    /\ opc[t] = "start"
    /\ oref' = [oref EXCEPT ![t] = CopyTarget(t)]
    /\ dicts' = [dicts EXCEPT ![CopyTarget(t)] = dicts["base"]]
    /\ opc' = [opc EXCEPT ![t] =
                  IF variant \in {"stream_track", "app_zip"}
                  THEN "headers" ELSE "template"]
    /\ UNCHANGED <<optOtherVars, oround>>

\* app.py lines 122-131: opts['http_headers'] = {...}
O_SetHeaders(t) ==
    /\ opc[t] = "headers"
    /\ \E ua \in UserAgents :
         dicts' = [dicts EXCEPT ![oref[t]]["http_headers"] = ua]
    /\ opc' = [opc EXCEPT ![t] = "template"]
    /\ UNCHANGED <<optOtherVars, oref, oround>>

\* app.py line 257, main.py line 185: ydl_opts['outtmpl'] = ...
O_SetTemplate(t) ==
    /\ opc[t] = "template"
    /\ dicts' = [dicts EXCEPT ![oref[t]]["outtmpl"] = Template(t, oround[t])]
    /\ opc' = [opc EXCEPT ![t] = "use"]
    /\ UNCHANGED <<optOtherVars, oref, oround>>

\* the client is created with the options and the attempt runs; the
\* thread's name for the dict goes out of scope
O_Use(t) ==
    /\ opc[t] = "use"
    /\ oround' = [oround EXCEPT ![t] = oround[t] + 1]
    /\ opc' = [opc EXCEPT ![t] = IF oround[t] + 1 < MaxOptRounds
                                 THEN "start" ELSE "done"]
    /\ oref' = [oref EXCEPT ![t] = "none"]
    /\ UNCHANGED <<optOtherVars, dicts>>

NextOpts ==
    \/ \E t \in OptThreads : O_Copy(t)
    \/ \E t \in OptThreads : O_SetHeaders(t)
    \/ \E t \in OptThreads : O_SetTemplate(t)
    \/ \E t \in OptThreads : O_Use(t)

SpecOpts == InitOpts /\ [][NextOpts]_vars

\* ============== main.py download_zip: exception inside the pool block
\* variant of PoolQuiet that does not wait for the workers
PoolQuietNoWait == TRUE

\* ThreadPoolExecutor.__exit__ is shutdown(wait=True): it returns when every
\* submitted task has run and every pool thread has ended
PoolQuiet ==
    /\ submitted = Len(tracks)
    /\ \A w \in Workers : wpc[w] = "idle"

InitAbort ==
    /\ variant = "main_zip"
    /\ collection \in SeqsUpTo(Names, MaxAbortTracks)
    /\ collection # <<>> => collection[1] = "a"
    /\ InitLocals
    /\ InitNoRequests
    /\ InitNoSide

\* an exception is raised in the request thread inside the with-block
\* (lines 494-504), after the tasks were submitted
MainZip_Abort ==
    /\ variant = "main_zip"
    /\ pc = "pool"
    /\ pc' = "aborting"
    /\ UNCHANGED <<variant, order, reqVars, sideVars, collection, handlerVars,
                   files, junk, newest, archive, appVars, tagged, last_outcome,
                   workerVars, zipFileVars>>

\* the with-block is left once the pool is shut down; the except clause of
\* the handler (lines 538-546) removes the workspace and answers 500
MainZip_AbortExit ==
    /\ variant = "main_zip"
    /\ pc = "aborting"
    /\ PoolQuiet
    /\ MainZip_Except
    /\ UNCHANGED <<variant, order, reqVars, sideVars, collection, temp_dir,
                   cleanupRegistered, files, junk, newest, archive, appVars,
                   tagged, last_outcome, workerVars, zip_path>>

NextAbort ==
    \/ \E w \in Workers : W_Acquire(w)
    \/ \E w \in Workers : W_Fetch(w)
    \/ \E w \in Workers : W_Check(w)
    \/ \E w \in Workers : W_Fallback(w)
    \/ \E w \in Workers : W_Tag(w)
    \/ \E w \in Workers : W_Except(w)
    \/ \E w \in Workers : W_Backoff(w)
    \/ \E w \in Workers : W_Pick(w)
    \/ \E w \in Workers : W_Return(w)
    \/ MainZip_Lookup
    \/ MainZip_Mkdtemp
    \/ MainZip_Abort
    \/ MainZip_AbortExit
    \/ MainZip_Archive
    \/ MainZip_Cleanup

SpecAbort == InitAbort /\ [][NextAbort]_vars

\* ================================================================ claims
Positions == 1..Len(tracks)

\* the file of the track at position p was put into the archive (app.py)
InArchive(p) == \E j \in DOMAIN archive : archive[j].pos = p

Downloaded == {results[j].pos : j \in {k \in DOMAIN results :
                                          results[k].res = "Downloaded"}}

\* C1: in stream_track and stream_file, when the request has completed the
\* temp directory created at its start has been deleted exactly once, on
\* every exit path (404, 500, success, exception).
C1_TempDirDeletedOnce ==
    (variant \in {"stream_track", "stream_file"} /\ pc = "done" /\ temp_dir)
        => (deletions = 1 /\ ~dirExists)

\* C2: in app.py download_zip, when the batch request has completed the
\* temp directory created at its start has been deleted exactly once, on
\* every exit path (404, zero successes, archive returned, exception).
C2_BatchTempDirDeletedOnce ==
    (variant = "app_zip" /\ pc = "done" /\ temp_dir)
        => (deletions = 1 /\ ~dirExists)

\* C3: in app.py download_zip, once the collection was found, the batch
\* ends in the batch-level failure exactly when no track succeeded, and in
\* the archive response exactly when at least one track succeeded.
C3_BatchFailsIffNoSuccess ==
    (variant = "app_zip" /\ pc = "done"
        /\ response \in {"500_no_tracks", "200_zip"})
        => ((response = "500_no_tracks") <=> ~\E p \in Positions : InArchive(p))

\* C4: in main.py download_zip, a batch of at least one track in which
\* every acquisition failed is answered with a failure, never with a
\* successful response carrying an archive.
C4_AllFailedIsFailure ==
    (variant = "main_zip" /\ pc = "done" /\ Len(tracks) > 0
        /\ Len(results) = Len(tracks) /\ Downloaded = {})
        => response # "200_zip"

\* C5: in main.py download_zip, the audio entries of the returned archive
\* are ordered by the original position of their tracks, whatever the
\* order in which the workers completed.
C5_ArchiveOrderByPosition ==
    (variant = "main_zip" /\ response = "200_zip")
        => \A j, k \in DOMAIN archive :
              (j < k /\ archive[j].kind = "mp3" /\ archive[k].kind = "mp3")
                  => archive[j].pos < archive[k].pos

\* lexicographic order of two 2-digit prefixes
PrefixLess(a, b) == a[1] < b[1] \/ (a[1] = b[1] /\ a[2] < b[2])

\* C6: in app.py download_zip, the archive entries are in strictly
\* increasing original position, each entry carries the 2-digit zero-padded
\* position of the track whose file it holds, and a track that failed has
\* no entry with its prefix.
C6_EntriesInPositionOrder ==
    variant = "app_zip" =>
        /\ \A j \in DOMAIN archive :
              /\ Len(archive[j].prefix) = 2
              /\ archive[j].prefix = Pad2(archive[j].pos)
              /\ archive[j].pos \in 1..i
        /\ \A j, k \in DOMAIN archive :
              j < k => /\ archive[j].pos < archive[k].pos
                       /\ PrefixLess(archive[j].prefix, archive[k].prefix)
        /\ \A p \in Positions :
              track_result[p] \in {"failed", "prep_raised"}
                  => ~\E j \in DOMAIN archive : archive[j].prefix = Pad2(p)

C6_Witness ==
    /\ variant = "app_zip"
    /\ Len(tracks) = 3
    /\ pc = "done"
    /\ track_result = <<"archived", "failed", "archived">>
    /\ Len(archive) = 2
    /\ archive[1].prefix = <<0, 1>>
    /\ archive[2].prefix = <<0, 3>>

\* C7: in app.py download_zip, after any prefix of the batch the number of
\* archive entries equals successful_downloads, and a track whose
\* processing raised has no entry in the archive.
C7_EntryCountEqualsSuccesses ==
    (variant = "app_zip" /\ pc = "loop")
        => /\ Len(archive) = successful_downloads
           /\ \A p \in Positions :
                 track_result[p] \in {"prep_raised", "write_raised",
                                      "remove_raised"} => ~InArchive(p)

\* C8: in main.py download_zip, the returned archive holds exactly one
\* entry per track whose acquisition returned a file: no entry of a track
\* that did not, no leftover intermediate file, and as many entries as
\* successes.
C8_OneEntryPerSuccess ==
    (variant = "main_zip" /\ response = "200_zip")
        => /\ Len(archive) = Cardinality(Downloaded)
           /\ \A j \in DOMAIN archive :
                 archive[j].kind = "mp3" /\ archive[j].pos \in Downloaded

\* C9: whenever the tagging step of a fetched file fails, the engine has
\* returned (no further attempt) and its result is the path of the fetched
\* file, in app.py and in main.py.
C9_TaggingNeverGates ==
    /\ tagged = "failed" =>
          /\ pc = "after_engine"
          /\ downloaded_file = CurName
          /\ Exists(downloaded_file)
    /\ \A w \in Workers :
          wtag[w] = "failed" =>
              /\ wpc[w] = "ret"
              /\ wpath[w] # NoFile
              /\ Exists(wpath[w])

C9_Witness ==
    /\ variant = "app_zip"
    /\ pc = "after_engine"
    /\ tagged = "failed"
    /\ attempts > 1
    /\ downloaded_file = CurName

\* C10: whenever the engine has returned a path, a file exists at that
\* path in the workspace, in app.py and in main.py (two workers sharing
\* the workspace included).
C10_ReturnedPathExists ==
    /\ (pc = "after_engine" /\ downloaded_file # NoFile)
          => Exists(downloaded_file)
    /\ \A w \in Workers :
          (wpc[w] = "ret" /\ wpath[w] # NoFile) => Exists(wpath[w])

C10_Witness ==
    /\ variant = "main_zip"
    /\ \E w, v \in Workers :
          /\ w # v
          /\ wpc[w] = "ret"
          /\ wpath[w] # NoFile
          /\ wpath[w] # TaskName(w)
          /\ wpc[v] \in {"fetch", "check", "tag"}

\* C11: every call of download_track (app.py) ends with exactly one
\* terminal outcome: when the call has returned, its value is either the
\* path of the track's file (exactly when an attempt produced the file) or
\* None (after errors, empty results or an exception leaving the engine),
\* and never an exception; until it returns there is no outcome.
C11_OneTerminalOutcome ==
    /\ pc = "after_engine" =>
          /\ downloaded_file \in Names \cup {NoFile}
          /\ (downloaded_file \in Names) <=> (last_outcome = "file")
          /\ (downloaded_file = NoFile)
                <=> (last_outcome \in {"error", "empty", "raised"})
    /\ pc = "engine" => downloaded_file = NoFile

C11_Witness ==
    /\ pc = "after_engine"
    /\ last_outcome = "raised"
    /\ downloaded_file = NoFile

\* C12: in app.py download_zip a track-level failure never aborts the
\* batch: the positions whose processing was started are 1, 2, 3, ... in
\* list order, each once, in step with the loop index; and when the loop is
\* over every track of the truncated list has been attempted, whatever
\* earlier tracks did (failed, or raised while being processed).
C12_EveryTrackAttemptedOnce ==
    variant = "app_zip" =>
        /\ order = [k \in 1..Len(order) |-> k]
        /\ Len(order) = (IF pc \in {"engine", "after_engine"} THEN i + 1 ELSE i)
        /\ Len(order) <= Len(tracks)
        /\ \A p \in Positions : track_result[p] # "pending" <=> p <= i
        /\ (pc \in {"after_request", "done"} /\ temp_dir /\ response # "404")
              => order = [k \in Positions |-> k]

C12_Witness ==
    /\ variant = "app_zip"
    /\ pc = "done"
    /\ track_result = <<"prep_raised", "write_raised", "archived">>
    /\ order = <<1, 2, 3>>

\* C13: first success wins in the app.py engine: once an attempt on a
\* (query, source) pair has produced the file, the engine has returned that
\* file, the pair that produced it is the last pair attempted, and no
\* further pair is attempted for the track (the attempt log only stays as
\* it is, or is dropped when the caller is done with the track).
C13_FirstSuccessWins ==
    [][last_outcome = "file" =>
          /\ pc = "after_engine"
          /\ downloaded_file = CurName
          /\ tried[Len(tried)] = <<attempt, source_idx>>
          /\ tried' \in {tried, <<>>}
          /\ attempts' \in {attempts, 0}]_vars

C13_Witness ==
    /\ pc = "after_engine"
    /\ last_outcome = "file"
    /\ had_error
    /\ tried = <<<<1, 1>>, <<1, 2>>>>
    /\ downloaded_file = CurName

\* the n-th (query, source) pair in priority order: queries in the outer
\* loop, the five source directives of a query in the inner loop
LadderPair(n) == <<((n - 1) \div NumSources) + 1, ((n - 1) % NumSources) + 1>>

\* C14: in the app.py engine, when the first k pairs in priority order each
\* returned zero candidates and pair k+1 produced a file, the engine has
\* succeeded having attempted exactly the pairs 1..k+1, each once, in
\* priority order.
C14_AttemptsFollowPriority ==
    (pc = "after_engine" /\ last_outcome = "file" /\ ~had_error)
        => /\ tried = [n \in 1..Len(tried) |-> LadderPair(n)]
           /\ attempts = Len(tried)
           /\ downloaded_file = CurName

C14_Witness ==
    /\ pc = "after_engine"
    /\ last_outcome = "file"
    /\ ~had_error
    /\ Len(tried) = 6
    /\ tried[6] = <<2, 1>>
    /\ downloaded_file = CurName

\* number of attempts the log holds for one (query, source) pair
TimesTried(log, pair) == Cardinality({n \in DOMAIN log : log[n] = pair})

\* C15: in the app.py engine, an attempt that ends in an exception of the
\* search or download call is followed by a retry of the same (query,
\* source) pair: the engine leaves a pair after an error only when that
\* pair has already been retried, and otherwise advances to the next
\* directive only after an attempt that returned no usable candidate.
C15_ErrorRetriesSamePair ==
    [][(pc = "engine" /\ attempts' = attempts + 1 /\ last_outcome' # "file")
          => \/ last_outcome' = "empty"
             \/ /\ pc' = "engine"
                /\ <<attempt', source_idx'>> = <<attempt, source_idx>>
             \/ TimesTried(tried', <<attempt, source_idx>>) >= 2]_vars

\* C16: when every attempt of the app.py engine fails (exception or empty
\* result) the engine terminates in Exhausted: every step of the engine
\* adds one pair of the 8 x 5 ladder to the attempt log, the log never
\* holds more than the 40 pairs nor a pair outside the ladder, and the
\* engine has returned None, leaving no file written for the track, exactly
\* after the 40 pairs were attempted, each once, in ladder order.
C16_ExhaustedAfterWholeLadder ==
    /\ Len(tried) <= NumQueries * NumSources
    /\ Len(tried) = attempts
    /\ \A n \in DOMAIN tried :
          tried[n] \in (1..NumQueries) \X (1..NumSources)
    /\ pc = "engine" =>
          /\ Len(tried) < NumQueries * NumSources
          /\ <<attempt, source_idx>> = LadderPair(Len(tried) + 1)
    /\ (pc = "after_engine" /\ last_outcome \in {"error", "empty"}) =>
          /\ tried = [n \in 1..(NumQueries * NumSources) |-> LadderPair(n)]
          /\ downloaded_file = NoFile
          /\ files[CurName] # i + 1

C16_Witness ==
    /\ pc = "after_engine"
    /\ last_outcome = "empty"
    /\ had_error
    /\ Len(tried) = 40
    /\ tried[40] = <<8, 5>>
    /\ downloaded_file = NoFile

\* the cap of the batch handler: 8 in app.py, 10 in main.py
BatchCap == IF variant = "app_zip" THEN 8 ELSE 10

\* C17: a batch processes only the first cap tracks of the collection, in
\* original order: the positions whose acquisition was started are
\* 1, 2, 3, ... and never exceed the cap (8 in app.py download_zip, 10 in
\* main.py download_zip), the processed list is the first cap tracks of
\* the collection from before the first acquisition on, and a finished
\* batch has started the first min(length, cap) tracks and no other.
C17_OnlyFirstCapTracks ==
    variant \in {"app_zip", "main_zip"} =>
        /\ \A n \in DOMAIN order : order[n] = n /\ order[n] <= BatchCap
        /\ Len(order) <= Min(Len(collection), BatchCap)
        /\ Len(tracks) = Min(Len(collection), BatchCap)
        /\ \A p \in 1..Len(tracks) : tracks[p] = collection[p]
        /\ \A p \in DOMAIN track_result :
              p > BatchCap => track_result[p] = "pending"
        /\ \A j \in DOMAIN results : results[j].pos <= BatchCap
        /\ \A j \in DOMAIN archive : archive[j].pos <= BatchCap
        /\ (pc = "done" /\ response \in {"200_zip", "500_no_tracks"})
              => Len(order) = Min(Len(collection), BatchCap)

C17_Witness ==
    /\ variant = "app_zip"
    /\ Len(collection) = 9
    /\ pc = "done"
    /\ response = "200_zip"
    /\ order = <<1, 2, 3, 4, 5, 6, 7, 8>>
    /\ track_result[8] = "archived"
    /\ track_result[9] = "pending"

\* the request is between the creation of its directory and its end
InFlight(r) == rpc[r] \in {"pool", "archive", "check", "send", "cleanup"}

\* the request has created its archive file and not yet cleaned up
HasArchive(r) == rpc[r] \in {"check", "send", "cleanup"}

\* C18: two concurrently running main.py download_zip requests never share
\* a scratch path: their temp directories are distinct, their archive file
\* paths are distinct (also for the same or a same-named collection), and
\* the archive a request has created is still its own file at its path
\* until the request has sent it (no other request removed or replaced it).
C18_NoSharedScratchPath ==
    /\ \A r, q \in Requests :
          (r # q /\ InFlight(r) /\ InFlight(q)) => rdir[r] # rdir[q]
    /\ \A r, q \in Requests :
          (r # q /\ HasArchive(r) /\ HasArchive(q)) => ZipPath(r) # ZipPath(q)
    /\ \A r \in Requests :
          rpc[r] \in {"check", "send"} => tmpzips[ZipPath(r)] = r

\* C19: when download_track returns no file in stream_track (app.py), the
\* failure response carries the error detail of the last attempt made by
\* the engine.
C19_FailureCarriesLastError ==
    [][(variant = "stream_track" /\ pc = "after_engine"
            /\ last_outcome \in {"error", "empty"}
            /\ response' = "500_failed")
          => ResponseBody(response').detail = last_outcome]_vars

\* C20: the response of a batch request whose tracks were processed tells
\* how many of the N processed tracks succeeded, in app.py and in main.py.
C20_BatchResponseCountsSuccesses ==
    (variant \in {"app_zip", "main_zip"} /\ pc = "done"
        /\ response \in {"200_zip", "500_no_tracks"})
        => /\ ResponseBody(response).total = Len(tracks)
           /\ ResponseBody(response).succeeded =
                 (IF variant = "app_zip" THEN successful_downloads
                                         ELSE Cardinality(Downloaded))

C22_QueriesDeduplicated ==
    \A j, k \in DOMAIN search_queries :
        j # k => search_queries[j] # search_queries[k]

\* C23: in the app.py engine, when a search returned zero candidates the
\* engine is at the next (query, source) pair without having slept: there
\* is no delay between the empty attempt and the next attempt.
C23_NoDelayAfterEmpty ==
    (pc = "engine" /\ last_outcome = "empty") => slept = 0

\* C24: in search_and_download_youtube (main.py) the same search is
\* attempted at most 2 times (attempts 0 and 1); a worker sleeps only
\* between a failed attempt and the retry, for 2^k seconds after attempt k,
\* and never after the final failed attempt: when it returns it is not
\* sleeping.
C24_BackoffPowersOfTwo ==
    \A w \in Workers :
        /\ wattempt[w] \in 0..1
        /\ (wsleep[w] # 0) <=> (wpc[w] = "backoff")
        /\ wpc[w] = "backoff" =>
              /\ wsleep[w] = 2 ^ wattempt[w]
              /\ wattempt[w] + 1 < 2

C24_Witness ==
    \E w \in Workers :
        /\ wpc[w] = "backoff"
        /\ wattempt[w] = 0
        /\ wsleep[w] = 1

\* C25: at most one acquisition is inside the fetch-client critical
\* section at any time, across the threads that share the downloader
\* (workers of a batch, concurrent requests), in app.py and in main.py;
\* the thread inside is the holder of the lock.
C25_OneInCriticalSection ==
    /\ Cardinality({t \in Threads : tpc[t] = "inside"}) <= 1
    /\ \A t \in Threads : tpc[t] = "inside" <=> lock = t

C25_Witness ==
    /\ tpc[1] = "waiting"
    /\ tpc[2] = "inside"
    /\ tpc[3] = "waiting"
    /\ tround[2] = 1
    /\ lock = 2

\* track acquisitions of the batch that were started and have not completed
InFlightTracks == submitted - Len(results)

\* C26: in main.py download_zip at most 2 track acquisitions are in flight
\* at every moment, however many tracks the batch has: the tracks in flight
\* are those of the busy workers, so a further track is in flight only
\* once a worker has finished its track; tracks not yet taken wait.
C26_AtMostTwoInFlight ==
    variant = "main_zip" =>
        /\ InFlightTracks <= 2
        /\ InFlightTracks = Cardinality({w \in Workers : wpc[w] # "idle"})
        /\ submitted <= Len(results) + 2

C26_Witness ==
    /\ variant = "main_zip"
    /\ Len(tracks) = 3
    /\ submitted = 3
    /\ Len(results) = 1
    /\ results[1].res = "Downloaded"
    /\ \A w \in Workers : wpc[w] # "idle"

\* C27: in main.py download_zip, with two workers sharing the workspace,
\* the path search_and_download_youtube returns for a track is the path of
\* that track's own file, and the file at that path was written by that
\* track's download (not another track's file picked up by the newest-.mp3
\* fallback, not a file overwritten by a same-named track).
C27_ReturnedFileIsOwnFile ==
    variant = "main_zip" =>
        \A w \in Workers :
            (wpc[w] = "ret" /\ wpath[w] # NoFile)
                => /\ wpath[w] = TaskName(w)
                   /\ files[wpath[w]] = wtask[w]

\* C28: in main.py download_zip, when an exception aborts the batch while
\* workers are running, the workspace directory is there as long as the
\* batch is being aborted, it is deleted only when no worker is running any
\* more (every in-flight acquisition has finished), and once the error
\* response is given the directory and any archive file are deleted.
C28_AbortWaitsForWorkers ==
    variant = "main_zip" =>
        /\ pc = "aborting" => dirExists
        /\ (temp_dir /\ ~dirExists) => \A w \in Workers : wpc[w] = "idle"
        /\ (temp_dir /\ response = "500_error")
              => /\ ~dirExists
                 /\ ~zipExists
                 /\ deletions = 1
                 /\ submitted = Len(results)

C28_Witness ==
    /\ variant = "main_zip"
    /\ pc = "aborting"
    /\ dirExists
    /\ response = "none"
    /\ wpc[1] = "fetch"
    /\ wpc[2] = "tag"
    /\ results = <<>>

\* result strings collected for the track at position p
Outcomes(p) == {k \in 1..Len(results) : results[k].pos = p}

\* C29: in main.py download_zip, once archive creation has started every
\* submitted track has completed with exactly one outcome out of Downloaded,
\* Failed and Error, and no worker is running; an exception inside a worker
\* becomes the Error outcome of its track and the batch goes on (no error
\* response while the pool is at work); no track ever has two outcomes.
C29_ArchiveAfterAllOutcomes ==
    variant = "main_zip" =>
        /\ \A p \in Positions : Cardinality(Outcomes(p)) <= 1
        /\ \A k \in 1..Len(results) :
              /\ results[k].pos \in Positions
              /\ results[k].res \in {"Downloaded", "Failed", "Error"}
        /\ pc = "pool" => response = "none"
        /\ (temp_dir /\ pc \in {"after_request", "done"})
              => /\ \A w \in Workers : wpc[w] = "idle"
                 /\ \A p \in Positions : Cardinality(Outcomes(p)) = 1

C29_Witness ==
    /\ variant = "main_zip"
    /\ response = "200_zip"
    /\ Len(tracks) = 3
    /\ \E k \in 1..Len(results) : results[k].res = "Error"
    /\ \E k \in 1..Len(results) : results[k].res = "Downloaded"
    /\ \E k \in 1..Len(results) : results[k].res = "Failed"

\* C30: in app.py download_zip, whenever the loop is about to start a track
\* (or to finish), the workspace holds no audio file of a track whose file
\* was written into the archive: each archived file was removed right after
\* the write, before the next track.
C30_ArchivedFileRemoved ==
    (variant = "app_zip" /\ pc = "loop") =>
        \A p \in Positions :
            InArchive(p) => \A n \in Names : files[n] # p

C32_SleepOutsideLock ==
    \A t \in Threads :
        tpc[t] = "sleeping" =>
            /\ lock # t
            /\ lock # 0 => tpc[lock] = "inside"

C32_Witness ==
    /\ variant = "app_zip"
    /\ tpc[1] = "sleeping"
    /\ tpc[2] = "inside"
    /\ lock = 2
    /\ tround[2] = 1

\* the returned entries whose title holds both the artist and the title
Matching == {k \in 1..Len(entries) : entries[k] = "both"}

\* C33: best-match selection of the app.py engine: when some returned entry
\* has a title that holds both the artist and the title, the entry selected
\* is the first such entry of the list; otherwise it is the first entry.
C33_BestMatchSelected ==
    best_entry # 0 =>
        IF Matching # {}
        THEN best_entry \in Matching /\ \A k \in Matching : best_entry <= k
        ELSE best_entry = 1

\* C34: when the tagger has saved the file, the cover image is embedded
\* exactly when cover bytes are present and their size is at most the
\* ceiling of 300 KB, and the text frames of the present fields are written
\* whether or not the cover was dropped; in app.py and in main.py.
C34_CoverEmbeddedUpToCeiling ==
    tag_result = "true" =>
        /\ ("APIC" \in tags) <=> (cover_size # 0 /\ cover_size <= CoverCeiling)
        /\ tags \ {"APIC"} = meta_fields

\* C35: building the options of an attempt never changes shared state: the
\* downloader's base options always equal their value at construction, the
\* metadata passed in is unchanged, each thread's options are an object no
\* other thread refers to, and when an attempt uses its options they hold
\* the output template of that very attempt.
C35_BaseOptionsNeverMutated ==
    /\ dicts["base"] = BaseAtConstruction
    /\ dicts["meta"] = MetaAtCall
    /\ \A t \in OptThreads :
          /\ oref[t] # "none" =>
                /\ oref[t] \notin {"base", "meta"}
                /\ \A u \in OptThreads \ {t} : oref[u] # oref[t]
          /\ opc[t] = "use" =>
                dicts[oref[t]]["outtmpl"] = Template(t, oround[t])

C35_Witness ==
    /\ variant = "app_zip"
    /\ opc[1] = "use"
    /\ opc[2] = "use"
    /\ oround[1] = 1
    /\ dicts["d1"]["http_headers"] = <<"ua1">>
    /\ dicts["d2"]["http_headers"] = <<"ua2">>
    /\ dicts["d1"]["outtmpl"] # dicts["d2"]["outtmpl"]

====
